---- MODULE Spec2Model ----
(***************************************************************************)
(* EventService (figma_plugin/src/services/event-service.ts): the plugin   *)
(* side of the correlation-multiplexed event protocol.  One EventService   *)
(* object, the WebSocket objects it created, its timers and the promises   *)
(* it handed out.  JavaScript runs every callback to completion, so each   *)
(* callback is one action.                                                 *)
(***************************************************************************)
EXTENDS Integers, Sequences, FiniteSets, TLC

\* ---------------------------------------------------------------- bounds
\* number of WebSocket objects the service creates in one behaviour
MaxSockets == 2
\* number of requests registered by sendEventAndWaitForResponse
MaxRequests == 2
\* the same, in the specification with subscribers
MaxRequestsDispatch == 1
\* call-stack frames available to a dispatch before the engine raises RangeError
MaxStack == 4
\* number of connect(url) calls, by the caller and by reconnect timers
MaxSessions == 2
\* number of WebSocket objects in the specification of the retry schedule
MaxSocketsRetry == 6

\* number of WebSocket objects the WebSocketClient creates
MaxClientSockets == 3
\* number of WebSocketClient.send calls of its owner
MaxSends == 2
\* number of FigmaPlugin.sendRequest calls
MaxPluginRequests == 2

\* ------------------------------------------------------- program constants
maxReconnectAttempts == 5
reconnectDelay == 1000

\* ------------------------------------------------------------ event types
EventTypes ==
  {"CONNECT", "DISCONNECT", "PING", "PONG", "ERROR", "UPDATE_NODE_REQUEST",
   "UPDATE_NODE_COMPLETE", "UPDATE_NODE_ERROR", "SELECTION_CHANGE",
   "GENERATE_CODE_PROGRESS", "GENERATE_CODE_COMPLETE"}

\* types the callers pass to sendEvent / sendEventAndWaitForResponse: one
\* without and one with a handler that the service installs itself
SendTypes == {"PING", "UPDATE_NODE_COMPLETE"}

\* types of the frames the peer sends
InboundTypes == {"PONG", "UPDATE_NODE_ERROR", "SELECTION_CHANGE"}

\* handlers of the business logic: one that returns, one that throws
hOk == [fn |-> "hOk", inst |-> 0]
hThrow == [fn |-> "hThrow", inst |-> 0]
UserHandlers == {hOk, hThrow}

\* the subscriptions the business logic makes and removes
Subscriptions ==
  {<<"SELECTION_CHANGE", hOk>>, <<"SELECTION_CHANGE", hThrow>>, <<"PONG", hThrow>>}

\* frames that do not decode to an event: text that is not JSON, and a JSON
\* object with a type but without metadata
MalformedFrames ==
  {[kind |-> "notJSON", type |-> ""],
   [kind |-> "noMetadata", type |-> "SELECTION_CHANGE"]}

\* close codes of a close event: normal closure, abnormal closure
CloseCodes == {1000, 1006}

VARIABLES
  sockets,            \* the WebSocket objects created so far, in creation order
  ws,                 \* this.ws: 0 is null, else an index into sockets
  reconnectAttempts,  \* this.reconnectAttempts
  reconnectTimers,    \* number of armed setTimeout(() => this.connect(this.url))
  handlers,           \* this.handlers: type -> handlers in insertion order
  nBind,              \* number of onopen runs: each makes fresh bound handlers
  pendingRequests,    \* keys of this.pendingRequests
  timers,             \* correlation ids whose request timeout is armed
  issued,             \* type of every registered request; its index is the id
  completions,        \* per correlation id: the calls of resolve / reject
  pingInterval,       \* this.pingInterval: 0 is null, else an interval id
  intervals,          \* ids of the armed setInterval timers
  sessionId,          \* this.sessionId: 0 is '', else the n-th generated id
  last,               \* what the last callback did, as its caller observes it
  server              \* the WebSocketClient and FigmaPlugin objects of the
                      \* server side (src/services), see NewServer

vars == <<sockets, ws, reconnectAttempts, reconnectTimers, handlers,
          nBind, pendingRequests, timers, issued, completions, pingInterval,
          intervals, sessionId, last, server>>

\* ---------------------------------------------------------------- helpers
Range(s) == {s[i] : i \in 1..Len(s)}

NoInvoked == [h \in {} |-> 0]

\* one more invocation of handler h
Inc(inv, h) ==
  IF h \in DOMAIN inv THEN [inv EXCEPT ![h] = @ + 1] ELSE inv @@ (h :> 1)

\* type and corr are those of the envelope the callback was given, if any
Last(op, type, corr, result, wrote, invoked) ==
  [op |-> op, type |-> type, corr |-> corr, result |-> result, wrote |-> wrote,
   invoked |-> invoked]

NewSocket == [rs |-> "CONNECTING", bound |-> TRUE, promise |-> "pending"]

\* this.ws && this.ws.readyState === WebSocket.OPEN
isConnected == ws # 0 /\ sockets[ws].rs = "OPEN"

\* Set.prototype.add / Set.prototype.delete on an insertion-ordered Set
SetAdd(s, h) == IF h \in Range(s) THEN s ELSE Append(s, h)
SetDelete(s, h) == SelectSeq(s, LAMBDA x : x # h)

\* Promise resolve / reject: only the first call settles
Settle(p, how) == IF p = "pending" THEN how ELSE p

Resolved(type) == [kind |-> "resolve", detail |-> type]
Rejected(why) == [kind |-> "reject", detail |-> why]

\* a delete that removes nothing
MapDeleteKeeps(pr, c) == pr

\* this.pendingRequests.delete(correlationId)
MapDelete(pr, c) == pr \ {c}
\* clearTimeout(timeout)
ClearTimeout(tm, c) == tm \ {c}

\* the state a dispatch works on
DState(pr, tm, comp, inv) == [pr |-> pr, tm |-> tm, comp |-> comp, inv |-> inv]

\* body shared by handlePong, handleNodeUpdateComplete,
\* handleCodeGenerationComplete (how = resolve) and handleNodeUpdateError
\* (how = reject), up to their closing notifyHandlers call
SettleIfPending(st, corr, outcome) ==
  IF corr \in st.pr
  THEN [st EXCEPT !.tm = ClearTimeout(st.tm, corr),
                  !.comp = [@ EXCEPT ![corr] = Append(@, outcome)],
                  !.pr = MapDelete(st.pr, corr)]
  ELSE st

RECURSIVE notifyHandlers(_, _, _, _, _)
RECURSIVE NotifyLoop(_, _, _, _, _, _)
RECURSIVE CallHandler(_, _, _, _, _, _)

\* the loop without its try / catch: the first handler that throws ends it
NotifyLoopNoCatch(hmap, st, type, corr, d, i) ==
  IF i > Len(hmap[type]) THEN [st |-> st, threw |-> FALSE]
  ELSE IF d + 1 > MaxStack THEN [st |-> st, threw |-> TRUE]
  ELSE LET r == CallHandler(hmap, hmap[type][i], st, type, corr, d + 1)
       IN IF r.threw THEN r ELSE NotifyLoop(hmap, r.st, type, corr, d, i + 1)

\* handler(event), running in stack frame d
CallHandler(hmap, h, st, type, corr, d) ==
  LET st1 == [st EXCEPT !.inv = Inc(st.inv, h)] IN
  CASE h.fn = "hOk" -> [st |-> st1, threw |-> FALSE]
    [] h.fn = "hThrow" -> [st |-> st1, threw |-> TRUE]
    [] h.fn \in {"handlePong", "handleNodeUpdateComplete",
                 "handleCodeGenerationComplete"} ->
         notifyHandlers(hmap, SettleIfPending(st1, corr, Resolved(type)),
                        type, corr, d + 1)
    [] h.fn = "handleNodeUpdateError" ->
         notifyHandlers(hmap,
                        SettleIfPending(st1, corr, Rejected("Node update error")),
                        type, corr, d + 1)
    [] h.fn = "handleCodeGenerationProgress" ->
         notifyHandlers(hmap, st1, type, corr, d + 1)

\* the for-of loop of notifyHandlers from position i, running in frame d.
\* The handler and the logError of the catch block both need frame d + 1:
\* when it does not exist the RangeError leaves the catch block too.
NotifyLoop(hmap, st, type, corr, d, i) ==
  IF i > Len(hmap[type]) THEN [st |-> st, threw |-> FALSE]
  ELSE IF d + 1 > MaxStack THEN [st |-> st, threw |-> TRUE]
  ELSE LET r == CallHandler(hmap, hmap[type][i], st, type, corr, d + 1)
       IN NotifyLoop(hmap, r.st, type, corr, d, i + 1)

\* notifyHandlers(event), running in frame d
notifyHandlers(hmap, st, type, corr, d) ==
  IF d > MaxStack THEN [st |-> st, threw |-> TRUE]
  ELSE NotifyLoop(hmap, st, type, corr, d, 1)


\* this.ws && this.ws.readyState === WebSocket.OPEN, on given values
IsOpen(socks, w) == w # 0 /\ socks[w].rs = "OPEN"

\* sendEventInternal without its readyState guard
sendEventInternalNoGuard(socks, w, hmap, st, type, corr, fails) ==
  IF fails THEN [st |-> st, wrote |-> <<>>]
  ELSE IF type # "PING" /\ type # "PONG"
       THEN [st |-> notifyHandlers(hmap, st, type, corr, 0).st, wrote |-> <<type>>]
       ELSE [st |-> st, wrote |-> <<type>>]

\* sendEventInternal(event) on socket table socks and handle w; fails says
\* that JSON.stringify / ws.send throws.  wrote lists what reached the wire.
sendEventInternal(socks, w, hmap, st, type, corr, fails) ==
  IF ~IsOpen(socks, w) THEN [st |-> st, wrote |-> <<>>]
  ELSE IF fails THEN [st |-> st, wrote |-> <<>>]
  ELSE IF type # "PING" /\ type # "PONG"
       THEN [st |-> notifyHandlers(hmap, st, type, corr, 0).st, wrote |-> <<type>>]
       ELSE [st |-> st, wrote |-> <<type>>]

\* rejectAllPendingRequests that clears the map without rejecting its entries
rejectAllClearsOnly(st, reason) == [st EXCEPT !.tm = st.tm \ st.pr, !.pr = {}]

\* rejectAllPendingRequests that leaves the timers of its entries armed
rejectAllKeepsTimers(st, reason) ==
  [st EXCEPT !.comp = [c \in DOMAIN st.comp |->
                         IF c \in st.pr THEN Append(st.comp[c], Rejected(reason))
                         ELSE st.comp[c]],
             !.pr = {}]

\* rejectAllPendingRequests(reason)
rejectAllPendingRequests(st, reason) ==
  [st EXCEPT !.tm = st.tm \ st.pr,
             !.comp = [c \in DOMAIN st.comp |->
                         IF c \in st.pr THEN Append(st.comp[c], Rejected(reason))
                         ELSE st.comp[c]],
             !.pr = {}]

\* a backoff that doubles
delayDoubling(n) == reconnectDelay * 2 ^ (n - 1)

\* the delay ws.onclose passes to setTimeout for attempt n:
\* this.reconnectDelay * Math.pow(1.5, n - 1), of which setTimeout takes the
\* integer part
delay(n) == (reconnectDelay * 3 ^ (n - 1)) \div 2 ^ (n - 1)

\* a stopPingInterval that forgets the timer without clearing it
stopPingIntervalNoClear(ivs, pi) == ivs

\* stopPingInterval(): clearInterval(this.pingInterval)
stopPingInterval(ivs, pi) == IF pi # 0 THEN ivs \ {pi} ELSE ivs

\* the handlers ws.onopen registers: fresh bound functions, instance k
registerInternal(hmap, k) ==
  LET add(m, t, f) == [m EXCEPT ![t] = SetAdd(@, [fn |-> f, inst |-> k])] IN
  add(add(add(add(add(hmap, "PONG", "handlePong"),
                      "UPDATE_NODE_COMPLETE", "handleNodeUpdateComplete"),
                  "UPDATE_NODE_ERROR", "handleNodeUpdateError"),
              "GENERATE_CODE_PROGRESS", "handleCodeGenerationProgress"),
          "GENERATE_CODE_COMPLETE", "handleCodeGenerationComplete")

Here == DState(pendingRequests, timers, completions, NoInvoked)

\* ---------------------------------------------------------- server side
\* WebSocketClient (src/services/websocket-client.ts) and the FigmaPlugin
\* that owns it (src/services/figma-plugin.ts), after construction.
\*   sockets            readyState and history of every WebSocket created;
\*                      handleOpen .. handleError stay attached to each
\*   ws                 this.ws: 0 is null, else an index into sockets
\*   reconnectAttempts  this.reconnectAttempts
\*   reconnectTimers    number of armed setTimeout(() => this.connect())
\*   isConnecting       this.isConnecting
\*   promises           state of every promise made by connect()
\*   connectionPromise  this.connectionPromise, and the promise that
\*                      resolveConnectionPromise / rejectConnectionPromise
\*                      settle: 0 is null, else an index into promises
\*   waiters            per promise: the awaits on it, in the order made
\*   sends              per send() call: its owner request (0: the owner of
\*                      the client), its status, the socket it wrote to
\*   requests           stage of every FigmaPlugin.sendRequest call
\*   pendingRequests    keys of FigmaPlugin.pendingRequests
\*   timeouts           requests whose 30 s timeout is armed
\*   outcomes           per request: the calls of resolve / reject
NewServer ==
  [sockets |-> <<>>, ws |-> 0, reconnectAttempts |-> 0, reconnectTimers |-> 0,
   isConnecting |-> FALSE, promises |-> <<>>, connectionPromise |-> 0,
   waiters |-> <<>>, sends |-> <<>>, requests |-> <<>>,
   pendingRequests |-> {}, timeouts |-> {}, outcomes |-> <<>>,
   throwing |-> {}]

\* ------------------------------------------------------------------ Init
Init ==
  /\ sockets = <<>>
  /\ ws = 0
  /\ reconnectAttempts = 0
  /\ reconnectTimers = 0
  /\ handlers = [t \in EventTypes |-> <<>>]
  /\ nBind = 0
  /\ pendingRequests = {}
  /\ timers = {}
  /\ issued = <<>>
  /\ completions = [c \in 1..MaxRequests |-> <<>>]
  /\ pingInterval = 0
  /\ intervals = {}
  /\ sessionId = 0
  /\ server = NewServer
  /\ last = Last("new", "", 0, "", <<>>, NoInvoked)

\* --------------------------------------------------------------- connect
\* a connect(url) without the check for an open connection
connectBodyNoCheck(op) ==
  /\ sessionId' = sessionId + 1
  /\ sockets' = Append(sockets, NewSocket)
  /\ ws' = Len(sockets) + 1
  /\ last' = Last(op, "", 0, "pending", <<>>, NoInvoked)
  /\ UNCHANGED <<server, reconnectAttempts, handlers, nBind, pendingRequests,
                 timers, issued, completions, pingInterval, intervals>>

\* body of connect(url), for a url that new WebSocket accepts; op names the
\* caller.  generateSessionId() is taken to return an id never returned
\* before.
connectBody(op) ==
  /\ sessionId' = sessionId + 1
  /\ IF isConnected
     THEN /\ last' = Last(op, "", 0, "resolved", <<>>, NoInvoked)
          /\ UNCHANGED <<sockets, ws>>
     ELSE /\ sockets' = Append(sockets, NewSocket)
          /\ ws' = Len(sockets) + 1
          /\ last' = Last(op, "", 0, "pending", <<>>, NoInvoked)
  /\ UNCHANGED <<server, reconnectAttempts, handlers, nBind, pendingRequests,
                 timers, issued, completions, pingInterval, intervals>>

\* connect(url) called by the owner of the service
Connect ==
  /\ isConnected \/ Len(sockets) < MaxSockets
  /\ sessionId < MaxSessions
  /\ connectBody("connect")
  /\ UNCHANGED reconnectTimers

\* the callback of the setTimeout of ws.onclose: this.connect(this.url)
reconnectCallback ==
  /\ reconnectTimers > 0
  /\ reconnectTimers' = reconnectTimers - 1
  /\ connectBody("reconnect")

\* a reconnect timer fires
ReconnectFire ==
  /\ isConnected \/ Len(sockets) < MaxSockets
  /\ sessionId < MaxSessions
  /\ reconnectCallback

\* ------------------------------------------------------ transport events
\* socket s opens; ws.onopen runs if it is still attached
OnOpen(s, fails) ==
  /\ sockets[s].rs = "CONNECTING"
  /\ LET socks1 == [sockets EXCEPT ![s].rs = "OPEN"] IN
     IF ~sockets[s].bound
     THEN /\ sockets' = socks1
          /\ last' = Last("open", "", 0, "detached", <<>>, NoInvoked)
          /\ UNCHANGED <<reconnectAttempts, handlers, nBind, pendingRequests,
                         timers, completions, pingInterval, intervals>>
     ELSE LET r == sendEventInternal(socks1, ws, handlers, Here, "CONNECT", 0, fails)
              k == nBind + 1
          IN /\ reconnectAttempts' = 0
             /\ handlers' = registerInternal(handlers, k)
             /\ nBind' = k
             /\ pendingRequests' = r.st.pr
             /\ timers' = r.st.tm
             /\ completions' = r.st.comp
             /\ intervals' = stopPingInterval(intervals, pingInterval) \cup {k}
             /\ pingInterval' = k
             /\ sockets' = [socks1 EXCEPT ![s].promise = Settle(@, "resolved")]
             /\ last' = Last("open", "", 0, "attached", r.wrote, r.st.inv)
  /\ UNCHANGED <<server, ws, sessionId, reconnectTimers, issued>>

\* socket s closes with the given code; when the connection failed the
\* browser fires error and then close in one task.  ws.onerror rejects the
\* promise of the connect that made s, ws.onclose runs after it; both only
\* if still attached.  last records the code of the close event and the
\* delay of the timer that ws.onclose armed (0: it armed none).
OnClose(s, code, failed) ==
  /\ sockets[s].rs # "CLOSED"
  \* a socket that never opened closes only by failing
  /\ sockets[s].rs = "CONNECTING" => failed
  /\ IF ~sockets[s].bound
     THEN /\ sockets' = [sockets EXCEPT ![s].rs = "CLOSED"]
          /\ last' = Last("close", "", 0, "detached", <<>>, NoInvoked)
                        @@ [code |-> code, delay |-> 0]
          /\ UNCHANGED <<reconnectAttempts, reconnectTimers, pendingRequests,
                         timers, completions, pingInterval, intervals>>
     ELSE LET r == notifyHandlers(handlers, Here, "DISCONNECT", 0, 0) IN
          /\ sockets' = [sockets EXCEPT
                           ![s].rs = "CLOSED",
                           ![s].promise = IF failed THEN Settle(@, "rejected") ELSE @]
          /\ intervals' = stopPingInterval(intervals, pingInterval)
          /\ pingInterval' = 0
          /\ pendingRequests' = r.st.pr
          /\ timers' = r.st.tm
          /\ completions' = r.st.comp
          /\ IF reconnectAttempts < maxReconnectAttempts
             THEN /\ reconnectAttempts' = reconnectAttempts + 1
                  /\ reconnectTimers' = reconnectTimers + 1
             ELSE UNCHANGED <<reconnectAttempts, reconnectTimers>>
          /\ last' = Last("close", "DISCONNECT", 0, "attached", <<>>,
                          r.st.inv)
                        @@ [code |-> code,
                            delay |-> IF reconnectAttempts < maxReconnectAttempts
                                      THEN delay(reconnectAttempts + 1) ELSE 0]
  /\ UNCHANGED <<server, ws, sessionId, handlers, nBind, issued>>

\* a handleEvent that completes the oldest pending request, whichever
\* correlation id the frame carries
handleEventResolvesOldest(st, hmap, type, corr) ==
  IF corr # 0 /\ st.pr # {}
  THEN LET o == CHOOSE c \in st.pr : \A d \in st.pr : c <= d IN
       [st EXCEPT !.tm = ClearTimeout(st.tm, o),
                  !.pr = MapDelete(st.pr, o),
                  !.comp = [@ EXCEPT ![o] = Append(@, Resolved(type))]]
  ELSE notifyHandlers(hmap, st, type, corr, 0).st

\* handleEvent without the return that follows resolve(event)
handleEventFallsThrough(st, hmap, type, corr) ==
  IF corr # 0 /\ corr \in st.pr
  THEN notifyHandlers(hmap,
         [st EXCEPT !.tm = ClearTimeout(st.tm, corr),
                    !.pr = MapDelete(st.pr, corr),
                    !.comp = [@ EXCEPT ![corr] = Append(@, Resolved(type))]],
         type, corr, 0).st
  ELSE notifyHandlers(hmap, st, type, corr, 0).st

\* a frame of the given type and correlation id arrives on socket s:
\* ws.onmessage parses it and calls handleEvent.  corr 0 is an id that no
\* request of this service carries.
handleEvent(st, hmap, type, corr) ==
  IF corr # 0 /\ corr \in st.pr
  THEN [st EXCEPT !.tm = ClearTimeout(st.tm, corr),
                  !.pr = MapDelete(st.pr, corr),
                  !.comp = [@ EXCEPT ![corr] = Append(@, Resolved(type))]]
  ELSE notifyHandlers(hmap, st, type, corr, 0).st

OnMessage(s, type, corr) ==
  /\ sockets[s].rs = "OPEN"
  /\ sockets[s].bound
  /\ LET st == handleEvent(Here, handlers, type, corr) IN
     /\ pendingRequests' = st.pr
     /\ timers' = st.tm
     /\ completions' = st.comp
     /\ last' = Last("message", type, corr,
                     IF corr \in pendingRequests THEN "matched" ELSE "dispatched",
                     <<>>, st.inv)
  /\ UNCHANGED <<server, sockets, ws, sessionId, reconnectAttempts, reconnectTimers,
                 handlers, nBind, issued, pingInterval, intervals>>

\* a handleEvent that reads the correlation id as event.metadata?.correlation_id
handleFrameLenient(st, hmap, f) ==
  IF f.kind = "notJSON" THEN [st |-> st, threw |-> TRUE]
  ELSE notifyHandlers(hmap, st, f.type, 0, 0)

\* the try block of ws.onmessage on a malformed frame f: JSON.parse throws a
\* SyntaxError on text that is not JSON; handleEvent throws a TypeError when
\* it reads event.metadata.correlation_id of an object without metadata,
\* before it looked at pendingRequests or handlers
handleFrame(st, hmap, f) ==
  CASE f.kind = "notJSON" -> [st |-> st, threw |-> TRUE]
    [] f.kind = "noMetadata" -> [st |-> st, threw |-> TRUE]

\* a malformed frame arrives on socket s: the catch block of ws.onmessage
\* logs the error
OnMalformed(s, f) ==
  /\ sockets[s].rs = "OPEN"
  /\ sockets[s].bound
  /\ LET r == handleFrame(Here, handlers, f) IN
     /\ pendingRequests' = r.st.pr
     /\ timers' = r.st.tm
     /\ completions' = r.st.comp
     /\ last' = Last("malformed", f.type, 0,
                     IF r.threw THEN "logged" ELSE "dispatched", <<>>, r.st.inv)
  /\ UNCHANGED <<server, sockets, ws, sessionId, reconnectAttempts, reconnectTimers,
                 handlers, nBind, issued, pingInterval, intervals>>

\* ------------------------------------------------------------ disconnect
Disconnect(fails) ==
  LET r == IF ws # 0
           THEN sendEventInternal(sockets, ws, handlers, Here, "DISCONNECT", 0, fails)
           ELSE [st |-> Here, wrote |-> <<>>]
      st == rejectAllPendingRequests(r.st, "WebSocket connection closed")
  IN /\ IF ws # 0
        THEN sockets' = [sockets EXCEPT
                           ![ws].bound = FALSE,
                           ![ws].rs = IF @ \in {"CONNECTING", "OPEN"}
                                      THEN "CLOSING" ELSE @]
        ELSE UNCHANGED sockets
     /\ ws' = 0
     /\ intervals' = stopPingInterval(intervals, pingInterval)
     /\ pingInterval' = 0
     /\ pendingRequests' = st.pr
     /\ timers' = st.tm
     /\ completions' = st.comp
     /\ last' = Last("disconnect", "", 0, "returned", r.wrote, st.inv)
     /\ UNCHANGED <<server, sessionId, reconnectAttempts, reconnectTimers, handlers,
                    nBind, issued>>

\* ------------------------------------------------------------------ send
\* sendEvent(type, payload): createMetadata() draws a fresh correlation id
SendEvent(type, fails) ==
  LET r == sendEventInternal(sockets, ws, handlers, Here, type, 0, fails) IN
  /\ pendingRequests' = r.st.pr
  /\ timers' = r.st.tm
  /\ completions' = r.st.comp
  /\ last' = Last("sendEvent", type, 0, "returned", r.wrote, r.st.inv)
  /\ UNCHANGED <<server, sockets, ws, sessionId, reconnectAttempts, reconnectTimers,
                 handlers, nBind, issued, pingInterval, intervals>>

\* sendEventAndWaitForResponse without its readyState check: it registers the
\* request and leaves the check to sendEventInternal
SendEventAndWaitForResponseNoCheck(type, fails) ==
  LET c == Len(issued) + 1
      st0 == DState(pendingRequests \cup {c}, timers \cup {c}, completions,
                    NoInvoked)
      r == sendEventInternal(sockets, ws, handlers, st0, type, c, fails)
  IN /\ Len(issued) < MaxRequests
     /\ issued' = Append(issued, type)
     /\ pendingRequests' = r.st.pr
     /\ timers' = r.st.tm
     /\ completions' = r.st.comp
     /\ last' = Last("sendRequest", type, c, "registered", r.wrote, r.st.inv)
     /\ UNCHANGED <<server, sockets, ws, sessionId, reconnectAttempts, reconnectTimers, handlers,
                    nBind, pingInterval, intervals>>

\* sendEventAndWaitForResponse(type, payload, timeout)
SendEventAndWaitForResponse(type, fails) ==
  IF ~isConnected
  THEN /\ last' = Last("sendRequest", type, 0, "rejected", <<>>, NoInvoked)
       /\ UNCHANGED <<server, sockets, ws, sessionId, reconnectAttempts, reconnectTimers,
                      handlers, nBind, pendingRequests, timers, issued,
                      completions, pingInterval, intervals>>
  ELSE LET c == Len(issued) + 1
           st0 == DState(pendingRequests \cup {c}, timers \cup {c}, completions,
                         NoInvoked)
           r == sendEventInternal(sockets, ws, handlers, st0, type, c, fails)
       IN /\ Len(issued) < MaxRequests
          /\ issued' = Append(issued, type)
          /\ pendingRequests' = r.st.pr
          /\ timers' = r.st.tm
          /\ completions' = r.st.comp
          /\ last' = Last("sendRequest", type, c, "registered", r.wrote,
                          r.st.inv)
          /\ UNCHANGED <<server, sockets, ws, sessionId, reconnectAttempts, reconnectTimers,
                         handlers, nBind, pingInterval, intervals>>

\* a timeout callback that rejects every pending request
TimeoutFireRejectsAll(c) ==
  LET st == rejectAllPendingRequests(Here, "Request timed out") IN
  /\ c \in timers
  /\ timers' = st.tm
  /\ pendingRequests' = st.pr
  /\ completions' = st.comp
  /\ last' = Last("timeout", "", c, "", <<>>, NoInvoked)
  /\ UNCHANGED <<server, sockets, ws, sessionId, reconnectAttempts, reconnectTimers, handlers,
                 nBind, issued, pingInterval, intervals>>

\* the timeout callback of request c runs
TimeoutFire(c) ==
  /\ c \in timers
  /\ timers' = timers \ {c}
  /\ IF c \in pendingRequests
     THEN /\ pendingRequests' = MapDelete(pendingRequests, c)
          /\ completions' = [completions EXCEPT
                               ![c] = Append(@, Rejected("Request timed out"))]
     ELSE UNCHANGED <<pendingRequests, completions>>
  /\ last' = Last("timeout", "", c, "", <<>>, NoInvoked)
  /\ UNCHANGED <<server, sockets, ws, sessionId, reconnectAttempts, reconnectTimers,
                 handlers, nBind, issued, pingInterval, intervals>>

\* the setInterval callback of interval i runs
PingTick(i, fails) ==
  /\ i \in intervals
  /\ LET r == IF isConnected
              THEN sendEventInternal(sockets, ws, handlers, Here, "PING", 0, fails)
              ELSE [st |-> Here, wrote |-> <<>>]
     IN last' = Last("pingTick", "", 0, "", r.wrote, r.st.inv)
  /\ UNCHANGED <<server, sockets, ws, sessionId, reconnectAttempts, reconnectTimers,
                 handlers, nBind, pendingRequests, timers, issued, completions,
                 pingInterval, intervals>>

\* ----------------------------------------------------------- subscribers
\* last records the handler that was passed
registerEventHandler(t, h) ==
  /\ handlers' = [handlers EXCEPT ![t] = SetAdd(@, h)]
  /\ last' = Last("register", t, 0, "", <<>>, NoInvoked) @@ [handler |-> h]
  /\ UNCHANGED <<server, sockets, ws, sessionId, reconnectAttempts, reconnectTimers, nBind,
                 pendingRequests, timers, issued, completions, pingInterval,
                 intervals>>

unregisterEventHandler(t, h) ==
  /\ handlers' = [handlers EXCEPT ![t] = SetDelete(@, h)]
  /\ last' = Last("unregister", t, 0, "", <<>>, NoInvoked) @@ [handler |-> h]
  /\ UNCHANGED <<server, sockets, ws, sessionId, reconnectAttempts, reconnectTimers, nBind,
                 pendingRequests, timers, issued, completions, pingInterval,
                 intervals>>

\* ------------------------------------------------------------------ Next
\* the service with the handlers it installs itself
Next ==
  \/ Connect
  \/ ReconnectFire
  \/ \E s \in 1..Len(sockets), f \in BOOLEAN : OnOpen(s, f)
  \/ \E s \in 1..Len(sockets), code \in CloseCodes, f \in BOOLEAN :
        OnClose(s, code, f)
  \/ \E s \in 1..Len(sockets), t \in InboundTypes, c \in 0..Len(issued) :
        OnMessage(s, t, c)
  \/ \E f \in BOOLEAN : Disconnect(f)
  \/ \E t \in SendTypes, f \in BOOLEAN : SendEvent(t, f)
  \/ \E t \in SendTypes, f \in BOOLEAN : SendEventAndWaitForResponse(t, f)
  \/ \E c \in 1..MaxRequests : TimeoutFire(c)
  \/ \E i \in intervals, f \in BOOLEAN : PingTick(i, f)

Spec == Init /\ [][Next]_vars

\* timers that are armed fire
SpecLive == Spec /\ \A c \in 1..MaxRequests : WF_vars(TimeoutFire(c))

\* the service with subscribers of the business logic
NextDispatch ==
  \/ Connect
  \/ ReconnectFire
  \/ \E s \in 1..Len(sockets), f \in BOOLEAN : OnOpen(s, f)
  \/ \E s \in 1..Len(sockets), code \in CloseCodes, f \in BOOLEAN :
        OnClose(s, code, f)
  \/ \E s \in 1..Len(sockets), t \in InboundTypes, c \in 0..Len(issued) :
        OnMessage(s, t, c)
  \/ \E f \in BOOLEAN : Disconnect(f)
  \/ \E t \in SendTypes, f \in BOOLEAN : SendEvent(t, f)
  \/ \E t \in SendTypes, f \in BOOLEAN :
        Len(issued) < MaxRequestsDispatch /\ SendEventAndWaitForResponse(t, f)
  \/ \E c \in 1..MaxRequests : TimeoutFire(c)
  \/ \E i \in intervals, f \in BOOLEAN : PingTick(i, f)
  \/ \E p \in Subscriptions : registerEventHandler(p[1], p[2])
  \/ \E p \in Subscriptions : unregisterEventHandler(p[1], p[2])
  \/ \E s \in 1..Len(sockets), f \in MalformedFrames : OnMalformed(s, f)

SpecDispatch == Init /\ [][NextDispatch]_vars

\* the retry schedule: the caller connects once and never disconnects, the
\* transport opens or fails, every further connect comes from a reconnect
\* timer
ConnectFirst ==
  /\ sockets = <<>>
  /\ connectBody("connect")
  /\ UNCHANGED reconnectTimers

ReconnectFireRetry ==
  /\ Len(sockets) < MaxSocketsRetry
  /\ reconnectCallback

NextRetry ==
  \/ ConnectFirst
  \/ ReconnectFireRetry
  \/ \E s \in 1..Len(sockets), f \in BOOLEAN : OnOpen(s, f)
  \/ \E s \in 1..Len(sockets), code \in CloseCodes, f \in BOOLEAN :
        OnClose(s, code, f)

SpecRetry == Init /\ [][NextRetry]_vars

TypeOK ==
  /\ ws \in 0..Len(sockets)
  /\ reconnectAttempts \in 0..maxReconnectAttempts
  /\ pendingRequests \subseteq 1..Len(issued)
  /\ timers = pendingRequests

\* ------------------------------------------- server side: WebSocketClient
\* Every function takes the server state c and returns the state after the
\* code ran.  An await is resumed by the microtasks that follow the callback
\* which settled its promise, before any other callback runs: the
\* continuations are part of the step that settles the promise.

\* this.ws && this.ws.readyState === WebSocket.OPEN
wsIsOpen(c) == c.ws # 0 /\ c.sockets[c.ws].rs = "OPEN"

\* connect(), for a url that new WebSocket accepts: the state after it and
\* the promise it returns (0: a promise that is already resolved)
wsConnect(c) ==
  IF wsIsOpen(c) THEN [c |-> c, p |-> 0]
  ELSE IF c.isConnecting /\ c.connectionPromise # 0
       THEN [c |-> c, p |-> c.connectionPromise]
       ELSE [c |-> [c EXCEPT !.isConnecting = TRUE,
                             !.promises = Append(@, "pending"),
                             !.waiters = Append(@, <<>>),
                             !.connectionPromise = Len(c.promises) + 1,
                             !.sockets = Append(@, [rs |-> "CONNECTING",
                                                    opened |-> FALSE]),
                             !.ws = Len(c.sockets) + 1],
             p |-> Len(c.promises) + 1]

\* the .catch of FigmaPlugin.sendRequest: the send of request k was rejected
catchSend(c, k) ==
  [c EXCEPT !.timeouts = @ \ {k},
            !.pendingRequests = @ \ {k},
            !.outcomes = [@ EXCEPT ![k] = Append(@, Rejected("send"))]]

\* send j is rejected with the given error; the request that owns it, if any,
\* catches it
sendFailed(c, j, error) ==
  LET c1 == [c EXCEPT !.sends = [@ EXCEPT ![j].status = error]] IN
  IF c.sends[j].owner # 0 THEN catchSend(c1, c.sends[j].owner) ELSE c1

\* this.ws!.send(JSON.stringify(message)) of send j: a TypeError when this.ws
\* is null, the error of JSON.stringify when the message of the request
\* cannot be serialised, an InvalidStateError when the socket is connecting;
\* a closing or closed socket discards the data without an error
wsWrite(c, j) ==
  IF c.ws = 0 THEN sendFailed(c, j, "TypeError")
  ELSE IF c.sends[j].owner \in c.throwing THEN sendFailed(c, j, "threw")
  ELSE IF c.sockets[c.ws].rs = "CONNECTING"
       THEN sendFailed(c, j, "InvalidStateError")
       ELSE [c EXCEPT !.sends = [@ EXCEPT
               ![j].status = IF c.sockets[c.ws].rs = "OPEN"
                             THEN "written" ELSE "discarded",
               ![j].sock = c.ws]]

RECURSIVE Await(_, _, _)
RECURSIVE Resume(_, _, _)
RECURSIVE wsSend(_, _)

\* send(message) called for request k (0: by the owner of the client)
wsSend(c, k) ==
  LET j == Len(c.sends) + 1
      c1 == [c EXCEPT !.sends = Append(@, [owner |-> k, status |-> "awaiting",
                                           sock |-> 0])]
  IN IF wsIsOpen(c1) THEN wsWrite(c1, j)
     ELSE LET r == wsConnect(c1) IN Await(r.c, r.p, <<"send", j>>)

\* FigmaPlugin.sendRequest of request k after its await of connect():
\* the failure result when connect() was rejected, else the timeout, the
\* entry and the call of send
sendRequestResume(c, k, ok) ==
  IF ~ok THEN [c EXCEPT !.requests = [@ EXCEPT ![k] = "failed"]]
  ELSE wsSend([c EXCEPT !.requests = [@ EXCEPT ![k] = "registered"],
                        !.timeouts = @ \cup {k},
                        !.pendingRequests = @ \cup {k}], k)

\* the code after an await, w = <<kind, index>>, when the promise is
\* resolved (ok) or rejected
Resume(c, w, ok) ==
  IF w[1] = "send"
  THEN IF ok THEN wsWrite(c, w[2]) ELSE sendFailed(c, w[2], "rejected")
  ELSE sendRequestResume(c, w[2], ok)

\* await of promise p by w
Await(c, p, w) ==
  IF p = 0 THEN Resume(c, w, TRUE)
  ELSE IF c.promises[p] = "pending"
       THEN [c EXCEPT !.waiters = [@ EXCEPT ![p] = Append(@, w)]]
       ELSE Resume(c, w, c.promises[p] = "resolved")

RECURSIVE ResumeAll(_, _, _)
\* the awaits ws of a promise that was settled, resumed in the order made
ResumeAll(c, wseq, ok) ==
  IF wseq = <<>> THEN c
  ELSE ResumeAll(Resume(c, Head(wseq), ok), Tail(wseq), ok)

\* resolveConnectionPromise() / rejectConnectionPromise(error): they settle
\* the promise of the latest connect() that made one; a settled promise
\* stays as it is
SettleConnection(c, ok) ==
  LET p == c.connectionPromise IN
  IF p = 0 THEN c
  ELSE IF c.promises[p] # "pending" THEN c
  ELSE ResumeAll([c EXCEPT !.promises = [@ EXCEPT ![p] = IF ok THEN "resolved"
                                                        ELSE "rejected"],
                           !.waiters = [@ EXCEPT ![p] = <<>>]],
                 c.waiters[p], ok)

\* handleOpen() of socket s
handleOpen(c, s) ==
  SettleConnection([c EXCEPT !.sockets = [@ EXCEPT ![s].rs = "OPEN",
                                                   ![s].opened = TRUE],
                             !.reconnectAttempts = 0,
                             !.isConnecting = FALSE], TRUE)

\* handleError(event) of socket s
handleError(c, s) == SettleConnection(c, FALSE)

\* handleClose(event) of socket s
handleClose(c, s, code) ==
  LET c1 == [c EXCEPT !.ws = 0, !.isConnecting = FALSE] IN
  IF code # 1000 /\ c1.reconnectAttempts < maxReconnectAttempts
  THEN [c1 EXCEPT !.reconnectAttempts = @ + 1, !.reconnectTimers = @ + 1]
  ELSE SettleConnection(c1, FALSE)

\* disconnect()
wsDisconnect(c) ==
  IF c.ws = 0 THEN c
  ELSE [c EXCEPT !.sockets = [@ EXCEPT ![c.ws].rs =
                                 IF @ \in {"CONNECTING", "OPEN"}
                                 THEN "CLOSING" ELSE @],
                 !.ws = 0]

\* ----------------------------------------------- server side: FigmaPlugin
\* a handleMessage that hands a message with an unknown requestId to the
\* oldest pending request
handleMessageOldest(c, k, type, hasPayload) ==
  IF c.pendingRequests # {}
  THEN LET o == CHOOSE a \in c.pendingRequests :
                   \A b \in c.pendingRequests : a <= b
           c1 == [c EXCEPT !.timeouts = @ \ {o}, !.pendingRequests = @ \ {o}]
       IN IF ~hasPayload THEN c1
          ELSE [c1 EXCEPT !.outcomes = [@ EXCEPT ![o] = Append(@,
                  Resolved(IF type = "ERROR" THEN "failure" ELSE "success"))]]
  ELSE c

\* FigmaPlugin.handleMessage(message), called by WebSocketClient.handleMessage
\* inside a try / catch; k is the requestId of the message (0: it has none,
\* or one that no request of this plugin carries).  message.payload.message
\* and message.payload.node throw a TypeError when the message has no
\* payload: the entry and the timeout are gone by then, resolve is not
\* called.
handleMessage(c, k, type, hasPayload) ==
  IF k # 0 /\ k \in c.pendingRequests
  THEN LET c1 == [c EXCEPT !.timeouts = @ \ {k}, !.pendingRequests = @ \ {k}] IN
       IF ~hasPayload THEN c1
       ELSE [c1 EXCEPT !.outcomes = [@ EXCEPT ![k] = Append(@,
               Resolved(IF type = "ERROR" THEN "failure" ELSE "success"))]]
  ELSE c

\* the callback of the 30 s timeout of request k
requestTimeout(c, k) ==
  LET c1 == [c EXCEPT !.timeouts = @ \ {k}] IN
  IF k \in c.pendingRequests
  THEN [c1 EXCEPT !.pendingRequests = @ \ {k},
                  !.outcomes = [@ EXCEPT ![k] = Append(@, Rejected("Request to Figma plugin timed out"))]]
  ELSE c1

\* sendRequest(message) up to its await of this.wsClient.connect(); throws:
\* JSON.stringify throws on the message
sendRequest(c, throws) ==
  LET k == Len(c.requests) + 1
      c1 == [c EXCEPT !.requests = Append(@, "connecting"),
                      !.outcomes = Append(@, <<>>),
                      !.throwing = IF throws THEN @ \cup {k} ELSE @]
      r == wsConnect(c1)
  IN Await(r.c, r.p, <<"request", k>>)

\* --------------------------------------------------- server side: actions
serviceVars ==
  <<sockets, ws, reconnectAttempts, reconnectTimers, handlers, nBind,
    pendingRequests, timers, issued, completions, pingInterval, intervals,
    sessionId>>

\* one callback of the server side that leaves the state c
ServerStep(op, type, k, c) ==
  /\ Len(c.sockets) <= MaxClientSockets
  /\ server' = c
  /\ last' = Last(op, type, k, "", <<>>, NoInvoked)
  /\ UNCHANGED serviceVars

\* the send() calls made by the owner of the client
OwnSends == {j \in 1..Len(server.sends) : server.sends[j].owner = 0}

ClientConnect == ServerStep("wsConnect", "", 0, wsConnect(server).c)

ClientSend ==
  /\ Cardinality(OwnSends) < MaxSends
  /\ ServerStep("wsSend", "", Len(server.sends) + 1, wsSend(server, 0))

ClientDisconnect == ServerStep("wsDisconnect", "", 0, wsDisconnect(server))

\* a reconnect timer of handleClose fires: this.connect()
ClientReconnectFire ==
  /\ server.reconnectTimers > 0
  /\ ServerStep("wsReconnect", "", 0,
                wsConnect([server EXCEPT !.reconnectTimers = @ - 1]).c)

\* socket s opens
ClientOnOpen(s) ==
  /\ server.sockets[s].rs = "CONNECTING"
  /\ ServerStep("wsOpen", "", s, handleOpen(server, s))

\* socket s closes with the given code; when the connection failed, error is
\* fired before close, and the awaits it rejects are resumed between the
\* two.  A socket that never opened closes only by failing, and a failed
\* socket closes with 1006.  last records the code.
ClientOnClose(s, code, failed) ==
  /\ server.sockets[s].rs # "CLOSED"
  /\ ~server.sockets[s].opened => failed
  /\ failed => code = 1006
  /\ LET c0 == [server EXCEPT !.sockets = [@ EXCEPT ![s].rs = "CLOSED"]]
         c1 == IF failed THEN handleError(c0, s) ELSE c0
         c2 == handleClose(c1, s, code)
     IN /\ Len(c2.sockets) <= MaxClientSockets
        /\ server' = c2
        /\ last' = Last("wsClose", "", s, "", <<>>, NoInvoked) @@ [code |-> code]
        /\ UNCHANGED serviceVars

\* types of the messages of the Figma plugin
PluginMessageTypes == {"ERROR", "CREATE_FRAME"}

PluginSendRequest(throws) ==
  /\ Len(server.requests) < MaxPluginRequests
  /\ ServerStep("sendRequest", "", Len(server.requests) + 1,
                sendRequest(server, throws))

\* a message arrives on socket s: WebSocketClient.handleMessage parses it
\* and calls FigmaPlugin.handleMessage
PluginOnMessage(s, k, type, hasPayload) ==
  /\ server.sockets[s].rs = "OPEN"
  /\ LET c == handleMessage(server, k, type, hasPayload) IN
     /\ server' = c
     /\ last' = Last("pluginMessage", type, k, "", <<>>, NoInvoked)
                  @@ [hasPayload |-> hasPayload]
     /\ UNCHANGED serviceVars

PluginTimeout(k) ==
  /\ k \in server.timeouts
  /\ ServerStep("requestTimeout", "", k, requestTimeout(server, k))

\* the WebSocketClient with an owner that calls connect, send and disconnect
NextClient ==
  \/ ClientConnect
  \/ ClientSend
  \/ ClientDisconnect
  \/ ClientReconnectFire
  \/ \E s \in 1..Len(server.sockets) : ClientOnOpen(s)
  \/ \E s \in 1..Len(server.sockets), code \in CloseCodes, f \in BOOLEAN :
        ClientOnClose(s, code, f)

SpecClient == Init /\ [][NextClient]_vars

\* the FigmaPlugin, sole owner of its WebSocketClient
NextPlugin ==
  \/ \E f \in BOOLEAN : PluginSendRequest(f)
  \/ \E s \in 1..Len(server.sockets), k \in 0..Len(server.requests),
        t \in PluginMessageTypes, hp \in BOOLEAN : PluginOnMessage(s, k, t, hp)
  \/ \E k \in 1..MaxPluginRequests : PluginTimeout(k)
  \/ ClientReconnectFire
  \/ \E s \in 1..Len(server.sockets) : ClientOnOpen(s)
  \/ \E s \in 1..Len(server.sockets), code \in CloseCodes, f \in BOOLEAN :
        ClientOnClose(s, code, f)

SpecPlugin == Init /\ [][NextPlugin]_vars

\* both ends on their first connection: requests, frames and request
\* timeouts of the EventService and of the FigmaPlugin
NextFrames ==
  \/ ConnectFirst
  \/ \E s \in 1..Len(sockets), f \in BOOLEAN : OnOpen(s, f)
  \/ \E s \in 1..Len(sockets), t \in InboundTypes, c \in 0..Len(issued) :
        OnMessage(s, t, c)
  \/ \E t \in SendTypes, f \in BOOLEAN : SendEventAndWaitForResponse(t, f)
  \/ \E c \in 1..MaxRequests : TimeoutFire(c)
  \/ PluginSendRequest(FALSE)
  \/ \E s \in 1..Len(server.sockets) : ClientOnOpen(s)
  \/ \E s \in 1..Len(server.sockets), k \in 0..Len(server.requests),
        t \in PluginMessageTypes, hp \in BOOLEAN : PluginOnMessage(s, k, t, hp)
  \/ \E k \in 1..MaxPluginRequests : PluginTimeout(k)

SpecFrames == Init /\ [][NextFrames]_vars

\* the fields of the server side have their types
ServerTypeOK ==
  /\ server.ws \in 0..Len(server.sockets)
  /\ server.connectionPromise \in 0..Len(server.promises)
  /\ server.reconnectAttempts \in 0..maxReconnectAttempts
  /\ server.pendingRequests \subseteq 1..Len(server.requests)
  /\ server.timeouts \subseteq 1..Len(server.requests)

\* ---------------------------------------------------------------- claims
Requests == 1..MaxRequests

TimedOut == Rejected("Request timed out")
ConnectionClosed == Rejected("WebSocket connection closed")

\* C1: over every interleaving of a matching response, the timeout and
\* disconnect(), resolve / reject of a registered request is called at most
\* once, and only in a step in which its entry (already in pendingRequests, or
\* registered by this very step) is gone from pendingRequests, with its timer.
C1_AtMostOnce ==
  [][\A c \in Requests :
       /\ Len(completions'[c]) <= 1
       /\ completions'[c] # completions[c] =>
            /\ c \notin pendingRequests' /\ c \notin timers'
            /\ c \in pendingRequests \/ (c = Len(issued') /\ c = Len(issued) + 1)]_vars

\* a request resolved by its response, then the other rejected by disconnect()
C1_Witness ==
  /\ last.op = "disconnect"
  /\ \E c, d \in Requests :
       /\ Len(completions[c]) = 1 /\ completions[c][1].kind = "resolve"
       /\ issued[c] = "PING"
       /\ completions[d] = <<ConnectionClosed>>

\* C2: with timers that fire, every registered request is eventually
\* completed: no entry stays in pendingRequests forever.
C2_EventuallyCompletes ==
  \A c \in Requests : (c \in pendingRequests) ~> (Len(completions[c]) = 1)

\* a request that outlived the loss of its transport and the opening of a
\* second one has been completed by its timeout
C2_Witness ==
  /\ last.op = "timeout" /\ completions[last.corr] = <<TimedOut>>
  /\ Len(sockets) = 2 /\ sockets[1].rs = "CLOSED" /\ isConnected

\* C3: when the open transport closes with two requests pending, both are
\* rejected with the connection-closed error in that step and one reconnect
\* timer is armed.
C3_CloseRejectsPending ==
  [][(/\ ws # 0 /\ ws' = ws
      /\ sockets[ws].rs = "OPEN" /\ sockets'[ws].rs = "CLOSED"
      /\ Cardinality(pendingRequests) = 2)
     => /\ pendingRequests' = {}
        /\ \A c \in pendingRequests : completions'[c] = <<ConnectionClosed>>
        /\ reconnectTimers' = reconnectTimers + 1]_vars

\* C4: disconnect() rejects every pending entry once with the
\* connection-closed error, leaves pendingRequests empty and no request timer
\* armed, so that no completion can follow.
C4_DisconnectRejectsAll ==
  [][last'.op = "disconnect" =>
       /\ pendingRequests' = {} /\ timers' = {} /\ ws' = 0
       /\ \A c \in Requests :
            /\ completions'[c] = IF c \in pendingRequests
                                 THEN Append(completions[c], ConnectionClosed)
                                 ELSE completions[c]
            /\ Len(completions'[c]) <= 1]_vars

\* disconnect() has rejected two pending requests
C4_Witness ==
  /\ last.op = "disconnect"
  /\ \A c \in {1, 2} : completions[c] = <<ConnectionClosed>>

\* C5: an inbound frame whose correlation id is that of a pending request
\* removes that entry, cancels its timer, resolves it with the frame, invokes
\* no subscriber and leaves every other entry as it was.
C5_MatchResolves ==
  [][(last'.op = "message" /\ last'.corr \in pendingRequests) =>
       /\ pendingRequests' = pendingRequests \ {last'.corr}
       /\ timers' = timers \ {last'.corr}
       /\ completions' = [completions EXCEPT
                            ![last'.corr] = <<Resolved(last'.type)>>]
       /\ last'.invoked = NoInvoked]_vars

\* a PONG has resolved the PING request it answers, another request is
\* still pending
C5_Witness ==
  /\ last.op = "message" /\ last.type = "PONG" /\ last.corr # 0
  /\ issued[last.corr] = "PING"
  /\ completions[last.corr] = <<Resolved("PONG")>>
  /\ pendingRequests # {} /\ timers = pendingRequests

\* C6: an inbound error-typed frame whose correlation id is that of a pending
\* request rejects that request.
C6_ErrorFrameRejects ==
  [][(/\ last'.op = "message" /\ last'.corr \in pendingRequests
      /\ last'.type \in {"ERROR", "UPDATE_NODE_ERROR"})
     => /\ Len(completions'[last'.corr]) = 1
        /\ completions'[last'.corr][1].kind = "reject"]_vars

\* C7, as stated: sendEvent while the connection is not open fails with an
\* error that its caller observes.
C7_SendFailsFast ==
  (last.op = "sendEvent" /\ ~isConnected) => last.result = "ConnectionError"

\* C7, amended: sendEvent while the connection is not open returns normally,
\* writes nothing to the transport and notifies no handler.
C7_SendDropsSilently ==
  (last.op = "sendEvent" /\ ~isConnected) =>
     /\ last.result = "returned"
     /\ last.wrote = <<>>
     /\ last.invoked = NoInvoked

\* sendEvent was called while the transport was closed and a reconnect waits
C7_Witness ==
  /\ last.op = "sendEvent" /\ ~isConnected
  /\ ws # 0 /\ sockets[ws].rs = "CLOSED" /\ reconnectTimers > 0

\* C8: sendEventAndWaitForResponse while the connection is not open rejects
\* at once, registers nothing and starts no timer.
C8_RequestRejectedWhenClosed ==
  [][(last'.op = "sendRequest" /\ ~isConnected) =>
       /\ last'.result = "rejected"
       /\ UNCHANGED <<pendingRequests, timers, issued, completions>>]_vars

\* the call was rejected while waiting for a reconnect, with an older
\* request still pending
C8_Witness ==
  /\ last.op = "sendRequest" /\ last.result = "rejected"
  /\ reconnectTimers > 0 /\ ~isConnected
  /\ pendingRequests = {1}

\* C9: the timeout of request A removes and rejects A alone: every other
\* entry, its timer, the subscriber map and the connection are unchanged.
C9_TimeoutIsLocal ==
  [][last'.op = "timeout" =>
       LET a == last'.corr IN
       /\ pendingRequests' = pendingRequests \ {a}
       /\ timers' = timers \ {a}
       /\ completions' = [completions EXCEPT ![a] = <<TimedOut>>]
       /\ UNCHANGED <<handlers, sockets, ws, reconnectAttempts, reconnectTimers,
                      pingInterval, intervals>>]_vars

\* after A timed out, B has been resolved by its response
C9_Witness ==
  /\ last.op = "message" /\ last.corr # 0
  /\ completions[last.corr] = <<Resolved(last.type)>>
  /\ \E a \in Requests : a # last.corr /\ completions[a] = <<TimedOut>>

\* C10: when an inbound envelope is dispatched, every handler subscribed to
\* its type is invoked, also when some of them throw, and the connection and
\* the pending requests are unchanged.
C10_FanOutIsolation ==
  [][(last'.op = "message" /\ last'.corr \notin pendingRequests) =>
       /\ \A h \in Range(handlers[last'.type]) : h \in DOMAIN last'.invoked
       /\ UNCHANGED <<sockets, ws, reconnectAttempts, reconnectTimers,
                      pendingRequests, timers, completions, handlers>>]_vars

\* the handler that throws was subscribed first, the other was still invoked,
\* with a request pending
C10_Witness ==
  /\ last.op = "message" /\ last.type = "SELECTION_CHANGE"
  /\ handlers["SELECTION_CHANGE"] = <<hThrow, hOk>>
  /\ last.invoked = (hThrow :> 1) @@ (hOk :> 1)
  /\ pendingRequests = {1}

\* C11: a malformed inbound frame (not JSON, or without metadata) is logged
\* and discarded: no subscriber is invoked, and the connection, the pending
\* requests with their timers and outcomes, and the subscriber map are what
\* they were, so that the frames after it meet the state the frames before
\* it left.
C11_MalformedDiscarded ==
  [][last'.op = "malformed" =>
       /\ last'.result = "logged"
       /\ last'.invoked = NoInvoked
       /\ UNCHANGED <<sockets, ws, sessionId, reconnectAttempts,
                      reconnectTimers, handlers, nBind, pendingRequests,
                      timers, issued, completions, pingInterval,
                      intervals>>]_vars

\* a frame of a subscribed type without metadata was discarded while a
\* request was pending
C11_Witness ==
  /\ last.op = "malformed" /\ last.type = "SELECTION_CHANGE"
  /\ hOk \in Range(handlers["SELECTION_CHANGE"])
  /\ pendingRequests = {1} /\ isConnected

\* C12: when a transport of a service whose caller connected once closes,
\* ws.onclose arms the timer of attempt n = reconnectAttempts + 1 with delay
\* 1000, 1500, 2250, 3375, 5062 ms for n = 1..5, the close of an open
\* transport arms attempt 1, and after five consecutive failed attempts it
\* arms no timer.
C12_RetrySchedule ==
  [][(last'.op = "close" /\ last'.result = "attached") =>
       LET RetryDelays == <<1000, 1500, 2250, 3375, 5062>> IN
       /\ IF reconnectAttempts < 5
          THEN /\ reconnectAttempts' = reconnectAttempts + 1
               /\ reconnectTimers' = reconnectTimers + 1
               /\ last'.delay = RetryDelays[reconnectAttempts']
          ELSE /\ last'.delay = 0
               /\ UNCHANGED <<reconnectAttempts, reconnectTimers>>
       /\ \A s \in 1..Len(sockets) :
            (sockets[s].rs = "OPEN" /\ sockets'[s].rs = "CLOSED") =>
               last'.delay = 1000]_vars

\* the transport was open once, the five attempts after its loss failed, and
\* the close of the fifth armed no timer
C12_Witness ==
  /\ last.op = "close" /\ last.result = "attached" /\ last.delay = 0
  /\ reconnectAttempts = 5 /\ reconnectTimers = 0
  /\ Len(sockets) = 6 /\ sockets[1].promise = "resolved"
  /\ \A s \in 2..6 : sockets[s].promise = "rejected"

\* C13: when the peer closes the open transport with the normal close code
\* 1000, ws.onclose arms no reconnect timer and does not count an attempt.
C13_NormalCloseNoReconnect ==
  [][(/\ last'.op = "close" /\ last'.result = "attached"
      /\ last'.code = 1000
      /\ ws # 0 /\ sockets[ws].rs = "OPEN" /\ sockets'[ws].rs = "CLOSED")
     => UNCHANGED <<reconnectTimers, reconnectAttempts>>]_vars

\* C14: after disconnect() (this.ws is null although sockets were created) a
\* new transport is opened only by a connect(url) of the caller, never by a
\* reconnect timer.
C14_NoOpenAfterDisconnect ==
  [][(ws = 0 /\ sockets # <<>> /\ Len(sockets') > Len(sockets)) =>
       last'.op = "connect"]_vars

\* C15: at most one of the transports the service created is connecting or
\* open.
C15_OneTransport ==
  Cardinality({s \in 1..Len(sockets) :
                 sockets[s].rs \in {"CONNECTING", "OPEN"}}) <= 1

C17_OpenMeansNoAttempts ==
  isConnected => reconnectAttempts = 0

\* C18: while the connection stays open on the same transport, this.sessionId,
\* which createMetadata stamps on every envelope, does not change.
C18_SessionIdStable ==
  [][(isConnected /\ ws' = ws /\ sockets'[ws].rs = "OPEN") =>
       sessionId' = sessionId]_vars

\* C19: the keepalive timer is armed exactly when the connection is open.
C19_KeepaliveIffOpen ==
  (intervals # {}) <=> isConnected

\* C20: at most one keepalive interval timer is armed, and it is the one
\* this.pingInterval names.
C20_OneKeepalive ==
  /\ Cardinality(intervals) <= 1
  /\ intervals = IF pingInterval = 0 THEN {} ELSE {pingInterval}

\* a second ws.onopen ran while the keepalive timer of the first was armed:
\* both transports are open and attached, only the second timer is armed
C20_Witness ==
  /\ last.op = "open" /\ nBind = 2 /\ intervals = {2}
  /\ Len(sockets) = 2
  /\ \A s \in {1, 2} : sockets[s].rs = "OPEN" /\ sockets[s].bound

\* C21: the promise of every connect(url) is settled: once the transport it
\* created is closed, and so can fire no further event, the promise has been
\* resolved or rejected.
C21_ConnectSettles ==
  \A s \in 1..Len(sockets) :
     sockets[s].rs = "CLOSED" => sockets[s].promise # "pending"

\* C22: an inbound frame that carries a correlation id completes, in the
\* step in which it arrives, the pending request of that id and no other:
\* every other request keeps its entry, its timer and its outcome, whichever
\* requests are still pending and in whatever order the responses arrive.
C22_AnyOrder ==
  [][(last'.op = "message" /\ last'.corr # 0) =>
       LET a == last'.corr IN
       /\ a \in pendingRequests =>
            /\ completions'[a] = <<Resolved(last'.type)>>
            /\ a \notin pendingRequests' /\ a \notin timers'
       /\ \A c \in Requests \ {a} :
            /\ completions'[c] = completions[c]
            /\ (c \in pendingRequests') = (c \in pendingRequests)
            /\ (c \in timers') = (c \in timers)]_vars

\* the response to the second request arrived first and resolved it while
\* the first request is still pending
C22_Witness ==
  /\ last.op = "message" /\ last.corr = 2
  /\ completions[2] = <<Resolved(last.type)>>
  /\ pendingRequests = {1} /\ completions[1] = <<>>

\* the number of times h occurs in the sequence s
Count(s, h) == Cardinality({i \in 1..Len(s) : s[i] = h})

\* the handlers of each type form a set: registerEventHandler(t, h) leaves h
\* exactly once among the handlers of t and changes nothing when the pair was
\* there; unregisterEventHandler(t, h) leaves h absent and changes nothing
\* when the pair was absent; both leave every other handler of t, and every
\* other type, as they were.
SetPerType ==
  [][last'.op \in {"register", "unregister"} =>
       LET t == last'.type
           h == last'.handler
           was == h \in Range(handlers[t])
       IN /\ \A u \in EventTypes \ {t} : handlers'[u] = handlers[u]
          /\ \A g \in Range(handlers[t]) \cup Range(handlers'[t]) :
               g # h => Count(handlers'[t], g) = Count(handlers[t], g)
          /\ last'.op = "register" =>
               /\ Count(handlers'[t], h) = 1
               /\ was => handlers' = handlers
          /\ last'.op = "unregister" =>
               /\ Count(handlers'[t], h) = 0
               /\ ~was => handlers' = handlers]_vars

\* C23: the subscribers of a type form a set, so that when an inbound
\* envelope is dispatched, a handler of the business logic is invoked once
\* if it is subscribed to the type of the envelope, however often it was
\* registered, and not at all if it is not.
C23_InvokedOnce ==
  [][(last'.op = "message" /\ last'.corr \notin pendingRequests) =>
       \A h \in UserHandlers :
          IF h \in Range(handlers[last'.type])
          THEN h \in DOMAIN last'.invoked /\ last'.invoked[h] = 1
          ELSE h \notin DOMAIN last'.invoked]_vars

\* C24: an inbound frame whose correlation id names no pending request
\* completes no request and leaves the pending requests and every timer as
\* they were, in the EventService (handleEvent) and in the FigmaPlugin
\* (handleMessage) alike.
C24_UnmatchedFrame ==
  [][/\ (last'.op = "message" /\ last'.corr \notin pendingRequests) =>
          UNCHANGED <<pendingRequests, timers, completions, intervals,
                      pingInterval, reconnectTimers>>
     /\ (last'.op = "pluginMessage" /\ last'.corr \notin server.pendingRequests) =>
          server' = server]_vars

\* the response to the first request arrived after its timeout had rejected
\* it, while the second request was pending: the frame was dispatched to the
\* handlers and the second request is still pending, its timer armed
C24_Witness ==
  /\ last.op = "message" /\ last.corr = 1 /\ last.result = "dispatched"
  /\ completions[1] = <<Rejected("Request timed out")>>
  /\ pendingRequests = {2} /\ timers = {2} /\ completions[2] = <<>>

\* C25: the dispatch of an inbound envelope that matches no pending request
\* invokes every handler registered for the type of the envelope exactly
\* once, the handlers the service registers for itself included, and no
\* other handler.
C25_EachHandlerOnce ==
  [][(last'.op = "message" /\ last'.corr \notin pendingRequests) =>
       /\ DOMAIN last'.invoked = Range(handlers[last'.type])
       /\ \A h \in Range(handlers[last'.type]) : last'.invoked[h] = 1]_vars

\* C26: sending an envelope completes no request: a call of sendEvent or of
\* sendEventAndWaitForResponse, whatever the type of the event, leaves the
\* outcome of every request as it was, that of the request being sent
\* included.
C26_SendCompletesNothing ==
  [][last'.op \in {"sendEvent", "sendRequest"} =>
       \A c \in Requests : completions'[c] = completions[c]]_vars

\* C27: once the first open has registered the handlers of the service,
\* nothing but registerEventHandler and unregisterEventHandler changes the
\* handlers of any type: connects, opens, closes, reconnects and disconnects
\* leave them as they were after the first open.
C27_HandlersStable ==
  [][(nBind >= 1 /\ last'.op \notin {"register", "unregister"}) =>
       handlers' = handlers]_vars

\* C28: at most one socket that the WebSocketClient created is connecting
\* or open.
C28_OneTransport ==
  Cardinality({s \in 1..Len(server.sockets) :
                 server.sockets[s].rs \in {"CONNECTING", "OPEN"}}) <= 1

\* C29: a send() that has come to its write found this.ws an open socket
\* and wrote to it, unless the connect it awaited was rejected, in which case
\* it wrote nothing: it never reaches this.ws.send with this.ws null,
\* connecting, closing or closed.
C29_WritesToOpen ==
  \A j \in 1..Len(server.sends) :
     server.sends[j].status \in {"awaiting", "written", "rejected"}

\* C30: in the FigmaPlugin, after every step, pendingRequests holds exactly
\* the requests whose promise is unsettled and whose timeout is armed, and
\* resolve / reject was called at most once for each request.  A message
\* with the requestId of a pending request clears its timeout, removes its
\* entry and resolves it (success: false for type ERROR, else success:
\* true); the timeout of a pending request removes its entry and rejects it;
\* a send that fails clears the timeout, removes the entry and rejects; a
\* request whose connect failed returns the failure result and was never
\* registered.
C30_PendingExact ==
  [][LET c == server'
         a == last'.corr
         SendsOf(st, k) == {j \in 1..Len(st.sends) : st.sends[j].owner = k}
         Failed(st, k) == \E j \in SendsOf(st, k) :
                             st.sends[j].status \notin {"awaiting", "written"}
     IN /\ \A k \in 1..Len(c.requests) :
             /\ k \in c.pendingRequests <=>
                  /\ c.requests[k] = "registered" /\ c.outcomes[k] = <<>>
                  /\ k \in c.timeouts
             /\ Len(c.outcomes[k]) <= 1
             /\ c.requests[k] = "failed" =>
                  /\ k \notin c.pendingRequests /\ k \notin c.timeouts
                  /\ c.outcomes[k] = <<>> /\ SendsOf(c, k) = {}
             /\ Failed(c, k) =>
                  /\ k \notin c.pendingRequests /\ k \notin c.timeouts
                  /\ c.outcomes[k] = <<Rejected("send")>>
        /\ (last'.op = "pluginMessage" /\ a \in server.pendingRequests) =>
             /\ a \notin c.pendingRequests /\ a \notin c.timeouts
             /\ c.outcomes[a] = <<Resolved(IF last'.type = "ERROR"
                                           THEN "failure" ELSE "success")>>
        /\ (last'.op = "requestTimeout" /\ a \in server.pendingRequests) =>
             /\ a \notin c.pendingRequests /\ a \notin c.timeouts
             /\ c.outcomes[a] = <<Rejected("Request to Figma plugin timed out")>>
    ]_vars

====
